---- MODULE Spec2Model ----
(***************************************************************************)
(* A model of the PDF-to-PPT converters of this repository:                *)
(*   src/pdf_to_ppt.py      the multi-backend converter module             *)
(*   src/convert_pdf2ppt.py the command-line variant                       *)
(*   src/simple_gui.py      the GUI: its conversion function and its batch *)
(* One conversion call runs at a time; the file system (the output file)   *)
(* persists from one call to the next.  The external collaborators (fitz,  *)
(* python-pptx, pdf2pptx, ImageMagick, LibreOffice) are opaque: each of    *)
(* their outcomes is a nondeterministic choice.                            *)
(***************************************************************************)
EXTENDS Integers, Sequences, FiniteSets, TLC

VARIABLES
    deps,          \* PDF2PPTX_AVAILABLE, PYMUPDF_AVAILABLE, PPTX_AVAILABLE
    convertTool,   \* the host's `convert` command: "ok", "absent" or "denied"
    outputExists,  \* os.path.exists(output_path)
    pc,            \* position of the running call
    req,           \* the arguments of the running call
    result,        \* what the call returned (or that it raised)
    best,          \* last outcome of get_best_available_method
    pdfOpen,       \* the fitz document handle `pdf` is open
    tmpDir,        \* the temporary directory of the call: "none", "live", "removed"
    tmpFiles,      \* image files in the temporary directory
    image_files,   \* the sorted listing of the temporary directory
    prs,           \* the in-memory presentation
    pg,            \* loop index of the page / image loop
    written,       \* what this call wrote at output_path
    effects,       \* per-call counters: probes of `convert`, external tool runs
    exitCode,      \* the value the CLI main returned to sys.exit: <<>> while none
    ratioIn,       \* detect_aspect_ratio: the document it is applied to
    ratioOut,      \* detect_aspect_ratio: its return value
    input_files,   \* SimplePDF2PPTApp.input_files, the list object the attribute names
    is_converting, \* SimplePDF2PPTApp.is_converting
    convert_btn,   \* state of the start button: "normal" or "disabled"
    progress_var,  \* the DoubleVar behind the progress bar, an exact quotient
    workers,       \* the batch threads of the GUI process, by order of creation
    uiLast,        \* the user-interface calls of the last step of start_conversion
                   \* or of a batch thread
    edits,         \* how many times the user has edited the file list
    known,         \* how many distinct paths the user has added so far
    nameIn,        \* file naming: the frame index and the pattern's width
    nameOut        \* file naming: the sorted listing of two consecutive frames

guiVars == << input_files, is_converting, convert_btn, progress_var, workers, uiLast,
             edits, known >>
nameVars == << nameIn, nameOut >>

vars == << deps, convertTool, outputExists, pc, req, result, best, pdfOpen, tmpDir,
           tmpFiles, image_files, prs, pg, written, effects, exitCode, ratioIn, ratioOut,
           guiVars, nameVars >>

(***************************************************************************)
(* Bounds of the model.                                                    *)
(***************************************************************************)
MaxPages == 10     \* pages of an input PDF: 0..MaxPages
MaxStart == 2      \* start_page: 0..MaxStart
MaxCount == 3      \* page_count: None or 0..MaxCount
MaxDim == 100      \* first-page width and height: 0..MaxDim
MaxFiles == 3      \* distinct PDF paths the user of the GUI can add
MaxBatches == 2    \* batch threads one GUI process starts
MaxEdits == 3      \* edits of the file list in one run of the GUI
MaxIndex == 9998   \* frame indices of the naming check: 0..MaxIndex

\* Width of the zero-padded index in the rasterizer's output pattern.
LibraryNameWidth == 4     \* page_%04d.png
CliNameWidth == 3         \* page_%03d.png

(***************************************************************************)
(* Enumerations and values.                                                *)
(***************************************************************************)
PDF2PPTX == "pdf2pptx"
PYMUPDF == "pymupdf"
IMAGEMAGICK == "imagemagick"
ConversionMethod == { PDF2PPTX, PYMUPDF, IMAGEMAGICK }

STANDARD_4_3 == "4:3"
WIDESCREEN_16_9 == "16:9"
CUSTOM == "custom"
PDFAspectRatio == { STANDARD_4_3, WIDESCREEN_16_9, CUSTOM }

\* Optional[int]: None is the empty sequence, a value n is <<n>>.
None == << >>
Some(n) == << n >>

\* The return values of convert_pdf_to_ppt, by the message template of the source.
NoResult == [status |-> "none", ok |-> FALSE, msg |-> ""]
Raised(what) == [status |-> "raised", ok |-> FALSE, msg |-> what]
Failure(message) == [status |-> "returned", ok |-> FALSE, msg |-> message]
Success(path) == [status |-> "returned", ok |-> TRUE, msg |-> path]

MsgInputMissing == "input file does not exist"
MsgNeedPdf2pptx == "missing library: pdf2pptx"
MsgNeedPyMuPDF == "missing library: PyMuPDF"
MsgNeedPptx == "missing library: python-pptx"
MsgNeedImageMagick == "ImageMagick not installed or unavailable"
MsgNoOutput == "conversion failed, no output file"
MsgException == "error during conversion: exception text"
MsgRasterFailed == "PDF to image failed: stderr text"
OutputPath == "output_path"

\* What a call wrote at output_path.
NothingWritten == [kind |-> "none", slides |-> << >>]
PptxWritten(slides) == [kind |-> "pptx", slides |-> slides]
LibraryWritten == [kind |-> "pdf2pptx", slides |-> << >>]
PlaceholderWritten == [kind |-> "text", slides |-> << >>]

\* The presentation: its slide size, the category the detector returned for it ("none"
\* when it was not asked), the page each slide shows and the box of each picture.
NoPrs == [size |-> "none", aspect |-> "none", slides |-> << >>, pictures |-> << >>]
Picture(left, top, size) == [left |-> left, top |-> top, size |-> size]
NoReq == [program |-> "none", method |-> "none", inputExists |-> FALSE,
          outputBefore |-> FALSE, pages |-> 0, start_page |-> 0, page_count |-> None,
          template |-> FALSE, detect_ratio |-> FALSE]
NoEffects == [probes |-> 0, toolRuns |-> 0, returncode |-> None, office |-> "none"]
NoRatioIn == [available |-> FALSE, openable |-> FALSE, pages |-> 0, width |-> 0, height |-> 0]
NoRatioOut == [status |-> "none", category |-> "none", ratio |-> << 0, 1 >>]

\* A batch thread of the GUI: its position in convert_files, its locals, the list
\* object its loop iterates (the object input_files names, or one that clear_list
\* has since replaced: `detached`), the number of items the loop's iterator has
\* yielded (the next value of i), the list as it was when the batch started, and
\* whether the calls of convert_pdf_to_pptx so far were for the files of that list,
\* one call each, in its order.
NoWorker == [pc |-> "unborn", total_files |-> 0, attached |-> FALSE, detached |-> << >>,
             yielded |-> 0, input_file |-> 0, successful |-> 0, failed |-> 0,
             inOrder |-> TRUE, started |-> << >>]
DeadWorker == [NoWorker EXCEPT !.pc = "dead"]
Workers == 1..MaxBatches
Files == 1..MaxFiles

\* One call on the user interface: the widget or Tk function, the calling thread, and
\* whether it was called directly or handed to the main loop with after().
UiCall(widget, thread, how) == [widget |-> widget, thread |-> thread, how |-> how]

\* SimplePDF2PPTApp.__init__ and the widgets it creates
GuiIdle ==
    /\ input_files = << >>
    /\ is_converting = FALSE
    /\ convert_btn = "normal"
    /\ progress_var = << 0, 1 >>
    /\ workers = [w \in Workers |-> NoWorker]
    /\ uiLast = {}
    /\ edits = 0
    /\ known = 0

NoNameIn == [index |-> 0, width |-> 0]
NamesIdle ==
    /\ nameIn = NoNameIn
    /\ nameOut = << >>

(***************************************************************************)
(* detect_aspect_ratio.  A ratio is the exact quotient <<num, den>> of the  *)
(* first page's height and width.                                          *)
(***************************************************************************)
RatioLe(a, b) == a[1] * b[2] <= b[1] * a[2]
RatioLt(a, b) == a[1] * b[2] < b[1] * a[2]

Lo43 == << 74, 100 >>
Hi43 == << 76, 100 >>
Lo169 == << 55, 100 >>
Hi169 == << 57, 100 >>
DefaultRatio == << 75, 100 >>

ClassifyOpenBands(ratio) ==
    IF RatioLt(Lo43, ratio) /\ RatioLt(ratio, Hi43) THEN STANDARD_4_3
    ELSE IF RatioLt(Lo169, ratio) /\ RatioLt(ratio, Hi169) THEN WIDESCREEN_16_9
    ELSE CUSTOM

Classify(ratio) ==
    IF RatioLe(Lo43, ratio) /\ RatioLe(ratio, Hi43) THEN STANDARD_4_3
    ELSE IF RatioLe(Lo169, ratio) /\ RatioLe(ratio, Hi169) THEN WIDESCREEN_16_9
    ELSE CUSTOM

RatioReturned(category, ratio) == [status |-> "returned", category |-> category, ratio |-> ratio]
RatioRaised == [status |-> "raised", category |-> "none", ratio |-> << 0, 1 >>]
RatioFallback == RatioReturned(STANDARD_4_3, DefaultRatio)

\* The body of the try block: fitz.open, doc[0], height / width, the bands.
DetectBody(doc) ==
    IF ~doc.openable THEN RatioRaised            \* fitz.open raises
    ELSE IF doc.pages = 0 THEN RatioRaised       \* doc[0]: IndexError
    ELSE IF doc.width = 0 THEN RatioRaised       \* height / width: ZeroDivisionError
    ELSE RatioReturned(Classify(<< doc.height, doc.width >>), << doc.height, doc.width >>)

detect_aspect_ratio_unguarded(doc) ==
    IF doc.available THEN DetectBody(doc) ELSE RatioFallback

detect_aspect_ratio(doc) ==
    IF doc.available
    THEN IF DetectBody(doc).status = "raised" THEN RatioFallback ELSE DetectBody(doc)
    ELSE RatioFallback

(***************************************************************************)
(* get_best_available_method over the snapshot of check_dependencies.      *)
(***************************************************************************)
_check_imagemagick(tool) ==
    CASE tool = "ok" -> [raised |-> FALSE, value |-> TRUE]
      [] tool = "absent" -> [raised |-> FALSE, value |-> FALSE]   \* FileNotFoundError, caught
      [] OTHER -> [raised |-> TRUE, value |-> FALSE]              \* another OSError, not caught

check_dependencies(d, tool) ==
    [pdf2pptx |-> d.pdf2pptx, pymupdf |-> d.pymupdf, pptx |-> d.pptx,
     imagemagick |-> _check_imagemagick(tool).value]

NoMethod == "RuntimeError: no method available"

get_best_available_method_swapped(snapshot) ==
    IF snapshot.pdf2pptx THEN PDF2PPTX
    ELSE IF snapshot.imagemagick /\ snapshot.pptx THEN IMAGEMAGICK
    ELSE IF snapshot.pymupdf /\ snapshot.pptx THEN PYMUPDF
    ELSE NoMethod

get_best_available_method_without_pptx(snapshot) ==
    IF snapshot.pdf2pptx THEN PDF2PPTX
    ELSE IF snapshot.pymupdf THEN PYMUPDF
    ELSE IF snapshot.imagemagick THEN IMAGEMAGICK
    ELSE NoMethod

get_best_available_method(snapshot) ==
    IF snapshot.pdf2pptx THEN PDF2PPTX
    ELSE IF snapshot.pymupdf /\ snapshot.pptx THEN PYMUPDF
    ELSE IF snapshot.imagemagick /\ snapshot.pptx THEN IMAGEMAGICK
    ELSE NoMethod

(***************************************************************************)
(* Helpers of the conversion handlers.                                     *)
(***************************************************************************)
Min(a, b) == IF a <= b THEN a ELSE b

PathMissingNever(exists) == FALSE

\* not os.path.exists(input_path)
PathMissing(exists) == ~exists

\* range(a, b) as a sequence
Range(a, b) == [i \in 1..(IF b > a THEN b - a ELSE 0) |-> a + i - 1]

EndPageNoClamp(start_page, page_count, total_pages) ==
    IF page_count = None THEN total_pages ELSE start_page + page_count[1]

\* end_page of _convert_with_pymupdf
EndPage(start_page, page_count, total_pages) ==
    IF page_count = None THEN total_pages
    ELSE Min(start_page + page_count[1], total_pages)

OutputCheckTrusting(exists) == Success(OutputPath)

\* the closing os.path.exists(output_path) test of every handler
OutputCheck(exists) ==
    IF exists THEN Success(OutputPath) ELSE Failure(MsgNoOutput)

RasterFailedOnNegative(returncode) == returncode < 0

\* result.returncode != 0
RasterFailed(returncode) == returncode # 0

SlideSizeOfTemplate(detect_ratio, template, aspect) ==
    IF template THEN "template"
    ELSE IF ~detect_ratio THEN "python-pptx default"
    ELSE IF aspect.category = WIDESCREEN_16_9 THEN "10 x 5.625 in" ELSE "10 x 7.5 in"

\* prs.slide_width, prs.slide_height after the detect_ratio block
SlideSize(detect_ratio, template, aspect) ==
    IF detect_ratio
    THEN IF aspect.category = WIDESCREEN_16_9 THEN "10 x 5.625 in" ELSE "10 x 7.5 in"
    ELSE IF template THEN "template" ELSE "python-pptx default"

\* First-page sizes <<width, height>> the handlers meet.
PageSizes == { << 4, 3 >>, << 16, 9 >>, << 1, 1 >>, << 0, 1 >> }

TheDoc(openable, pages, size) ==
    [available |-> deps.pymupdf, openable |-> openable, pages |-> pages,
     width |-> size[1], height |-> size[2]]

(***************************************************************************)
(* The rasterizer's output files.  A file name page_%0Wd.png is kept as    *)
(* the character codes of its digits followed by the code of ".", the      *)
(* part in which two names differ.                                         *)
(***************************************************************************)
RECURSIVE Digits(_)
Digits(n) == IF n < 10 THEN << 48 + n >> ELSE Digits(n \div 10) \o << 48 + (n % 10) >>

ZeroPadNone(ds, width) == ds

RECURSIVE ZeroPad(_, _)
ZeroPad(ds, width) == IF Len(ds) >= width THEN ds ELSE ZeroPad(<< 48 >> \o ds, width)

\* "%0Wd." % n
FileName(n, width) == ZeroPad(Digits(n), width) \o << 46 >>

RECURSIVE StrLess(_, _)
StrLess(a, b) ==
    IF a = << >> THEN b # << >>
    ELSE IF b = << >> THEN FALSE
    ELSE IF Head(a) # Head(b) THEN Head(a) < Head(b)
    ELSE StrLess(Tail(a), Tail(b))

RECURSIVE sorted(_)
sorted(names) ==
    IF names = {} THEN << >>
    ELSE LET least == CHOOSE n \in names : \A m \in names \ {n} : StrLess(n, m)
         IN  << least >> \o sorted(names \ {least})

\* The pages one input of the command line selects from a document of N pages:
\* the bare path selects every page, path[a-b] the pages a..b.
Selected(input, N) ==
    IF input.all THEN Range(0, N)
    ELSE Range(input.first, Min(input.last + 1, N))

RECURSIVE Frames(_, _)
Frames(inputs, N) ==
    IF inputs = << >> THEN << >>
    ELSE Selected(Head(inputs), N) \o Frames(Tail(inputs), N)

\* The files `convert` leaves: frame k (from 0) of the inputs, in order, as page_%0Wd.png
Rasterize(inputs, N, width) ==
    LET fs == Frames(inputs, N)
    IN  { [name |-> FileName(k - 1, width), page |-> fs[k]] : k \in 1..Len(fs) }

PageOf(files, name) == (CHOOSE f \in files : f.name = name).page

\* img_cmd of _convert_with_imagemagick, its inputs only
ImgCmdInputs(start_page, page_count) ==
    << [all |-> TRUE, first |-> 0, last |-> 0] >> \o
    (IF page_count # None
     THEN << [all |-> FALSE, first |-> start_page,
              last |-> start_page + page_count[1] - 1] >>
     ELSE << >>)

(***************************************************************************)
(* The converter module, src/pdf_to_ppt.py.                                *)
(***************************************************************************)
PageCounts == { None } \cup { Some(c) : c \in 0..MaxCount }

Finish(res) ==
    /\ result' = res
    /\ pc' = "done"

LeaveTempDirBehind ==
    /\ tmpDir' = "live"
    /\ UNCHANGED tmpFiles

\* leaving the `with tempfile.TemporaryDirectory()` block, by any way
LeaveTempDir ==
    /\ tmpDir' = "removed"
    /\ tmpFiles' = {}

\* PDFtoPPTConverter.get_best_available_method, called by a client of the module
GetBest ==
    /\ pc = "idle"
    /\ best = "none"
    /\ best' = IF _check_imagemagick(convertTool).raised THEN "raised: OSError"
               ELSE get_best_available_method(check_dependencies(deps, convertTool))
    /\ UNCHANGED << guiVars, nameVars, deps, convertTool, outputExists, pc, req, result, pdfOpen, tmpDir,
                    tmpFiles, image_files, prs, pg, written, effects, exitCode,
                    ratioIn, ratioOut >>

\* PDFtoPPTConverter.convert_pdf_to_ppt: the existence test and the dispatch
convert_pdf_to_ppt ==
    /\ pc = "idle"
    /\ \E method \in ConversionMethod, exists \in BOOLEAN, start \in 0..MaxStart,
          count \in PageCounts, template \in BOOLEAN, detect \in BOOLEAN :
         /\ req' = [program |-> "module", method |-> method, inputExists |-> exists,
                    outputBefore |-> outputExists, pages |-> 0, start_page |-> start, page_count |-> count,
                    template |-> template, detect_ratio |-> detect]
         /\ IF PathMissing(exists)
            THEN Finish(Failure(MsgInputMissing))
            ELSE /\ pc' = method
                 /\ result' = NoResult
    /\ best' = "none"
    /\ UNCHANGED << guiVars, nameVars, deps, convertTool, outputExists, pdfOpen, tmpDir, tmpFiles,
                    image_files, prs, pg, written, effects, exitCode, ratioIn, ratioOut >>

\* The __main__ block of pdf_to_ppt.py once get_best_available_method has returned a
\* method: convert_pdf_to_ppt(input, output, method=method, resolution=300,
\* detect_ratio=True) under the same import flags and the same host.
main_block ==
    /\ pc = "idle"
    /\ best \in ConversionMethod
    /\ \E exists \in BOOLEAN :
         /\ req' = [program |-> "module", method |-> best, inputExists |-> exists,
                    outputBefore |-> outputExists, pages |-> 0, start_page |-> 0,
                    page_count |-> None, template |-> FALSE, detect_ratio |-> TRUE]
         /\ IF PathMissing(exists)
            THEN Finish(Failure(MsgInputMissing))
            ELSE /\ pc' = best
                 /\ result' = NoResult
    /\ UNCHANGED << guiVars, nameVars, deps, convertTool, outputExists, best, pdfOpen, tmpDir,
                    tmpFiles, image_files, prs, pg, written, effects, exitCode, ratioIn,
                    ratioOut >>

\* _convert_with_pdf2pptx: the library either raises or returns, and either has
\* written the output file or has not
_convert_with_pdf2pptx ==
    /\ pc = PDF2PPTX
    /\ \/ /\ ~deps.pdf2pptx
          /\ Finish(Failure(MsgNeedPdf2pptx))
          /\ UNCHANGED << outputExists, written >>
       \/ /\ deps.pdf2pptx
          /\ \E raises \in BOOLEAN, writes \in BOOLEAN :
               /\ outputExists' = (outputExists \/ writes)
               /\ written' = IF writes THEN LibraryWritten ELSE NothingWritten
               /\ Finish(IF raises THEN Failure(MsgException)
                         ELSE OutputCheck(outputExists'))
    /\ UNCHANGED << guiVars, nameVars, deps, convertTool, req, best, pdfOpen, tmpDir, tmpFiles, image_files,
                    prs, pg, effects, exitCode, ratioIn, ratioOut >>

\* _convert_with_pymupdf: the two availability tests
PyEntry ==
    /\ pc = PYMUPDF
    /\ IF ~deps.pymupdf THEN Finish(Failure(MsgNeedPyMuPDF))
       ELSE IF ~deps.pptx THEN Finish(Failure(MsgNeedPptx))
       ELSE /\ pc' = "py_open"
            /\ UNCHANGED result
    /\ UNCHANGED << guiVars, nameVars, deps, convertTool, outputExists, req, best, pdfOpen, tmpDir, tmpFiles,
                    image_files, prs, pg, written, effects, exitCode, ratioIn, ratioOut >>

\* fitz.open and the page range
PyOpen ==
    /\ pc = "py_open"
    /\ \/ /\ Finish(Failure(MsgException))          \* fitz.open raises
          /\ UNCHANGED << pdfOpen, req, pg >>
       \/ \E pages \in 0..MaxPages :
            /\ pdfOpen' = TRUE
            /\ req' = [req EXCEPT !.pages = pages]
            /\ pg' = req.start_page
            /\ pc' = "py_prs"
            /\ UNCHANGED result
    /\ UNCHANGED << guiVars, nameVars, deps, convertTool, outputExists, best, tmpDir, tmpFiles, image_files,
                    prs, written, effects, exitCode, ratioIn, ratioOut >>

\* Presentation(...), the detect_ratio block, slide_layouts[6], entering the
\* TemporaryDirectory block
PyPresentation ==
    /\ pc = "py_prs"
    /\ \/ /\ Finish(Failure(MsgException))          \* python-pptx raises
          /\ UNCHANGED << prs, tmpDir >>
       \/ \E size \in PageSizes :
            /\ LET aspect == detect_aspect_ratio(TheDoc(TRUE, req.pages, size))
               IN  prs' = [size |-> SlideSize(req.detect_ratio, req.template, aspect),
                           aspect |-> IF req.detect_ratio THEN aspect.category ELSE "none",
                           slides |-> << >>, pictures |-> << >>]
            /\ tmpDir' = "live"
            /\ pc' = "py_pages"
            /\ UNCHANGED result
    /\ UNCHANGED << guiVars, nameVars, deps, convertTool, outputExists, req, best, pdfOpen, tmpFiles,
                    image_files, pg, written, effects, exitCode, ratioIn, ratioOut >>

\* one iteration of `for pg in range(start_page, end_page)`
PyPage ==
    /\ pc = "py_pages"
    /\ pg < EndPage(req.start_page, req.page_count, req.pages)
    /\ \/ /\ prs' = [prs EXCEPT !.slides = Append(@, pg),
                                 !.pictures = Append(@, Picture(0, 0, prs.size))]
          /\ pg' = pg + 1
          /\ UNCHANGED << pc, result, tmpDir, tmpFiles >>
       \/ /\ LeaveTempDir                            \* rendering or python-pptx raises
          /\ Finish(Failure(MsgException))
          /\ UNCHANGED << prs, pg >>
    /\ UNCHANGED << guiVars, nameVars, deps, convertTool, outputExists, req, best, pdfOpen, image_files,
                    written, effects, exitCode, ratioIn, ratioOut >>

\* prs.save(output_path) once the range is exhausted
PySave ==
    /\ pc = "py_pages"
    /\ pg >= EndPage(req.start_page, req.page_count, req.pages)
    /\ LeaveTempDir
    /\ \/ /\ outputExists' = TRUE
          /\ written' = PptxWritten(prs.slides)
          /\ pc' = "py_close"
          /\ UNCHANGED result
       \/ /\ Finish(Failure(MsgException))          \* save raises
          /\ UNCHANGED << outputExists, written >>
    /\ UNCHANGED << guiVars, nameVars, deps, convertTool, req, best, pdfOpen, image_files, prs, pg,
                    effects, exitCode, ratioIn, ratioOut >>

\* pdf.close() and the test of the output file
PyFinish ==
    /\ pc = "py_close"
    /\ pdfOpen' = FALSE
    /\ Finish(OutputCheck(outputExists))
    /\ UNCHANGED << guiVars, nameVars, deps, convertTool, outputExists, req, best, tmpDir, tmpFiles,
                    image_files, prs, pg, written, effects, exitCode, ratioIn, ratioOut >>

\* _convert_with_imagemagick: the probe of `convert` and the availability test
ImEntry ==
    /\ pc = IMAGEMAGICK
    /\ effects' = [effects EXCEPT !.probes = @ + 1]
    /\ IF _check_imagemagick(convertTool).raised THEN Finish(Raised("OSError"))
       ELSE IF ~_check_imagemagick(convertTool).value THEN Finish(Failure(MsgNeedImageMagick))
       ELSE IF ~deps.pptx THEN Finish(Failure(MsgNeedPptx))
       ELSE /\ pc' = "im_raster"
            /\ UNCHANGED result
    /\ UNCHANGED << guiVars, nameVars, deps, convertTool, outputExists, req, best, pdfOpen, tmpDir, tmpFiles,
                    image_files, prs, pg, written, exitCode, ratioIn, ratioOut >>

\* entering the TemporaryDirectory block, img_cmd, subprocess.run, the returncode test
ImRasterize ==
    /\ pc = "im_raster"
    /\ \/ /\ LeaveTempDir                            \* subprocess.run raises
          /\ effects' = [effects EXCEPT !.toolRuns = @ + 1]
          /\ Finish(Failure(MsgException))
          /\ UNCHANGED req
       \/ \E returncode \in 0..1, pages \in 0..MaxPages :
            /\ effects' = [effects EXCEPT !.toolRuns = @ + 1,
                                          !.returncode = Some(returncode)]
            /\ req' = [req EXCEPT !.pages = pages]
            /\ IF RasterFailed(returncode)
               THEN /\ LeaveTempDir
                    /\ Finish(Failure(MsgRasterFailed))
               ELSE /\ tmpDir' = "live"
                    /\ tmpFiles' = Rasterize(ImgCmdInputs(req.start_page, req.page_count),
                                             pages, LibraryNameWidth)
                    /\ pc' = "im_prs"
                    /\ UNCHANGED result
    /\ UNCHANGED << guiVars, nameVars, deps, convertTool, outputExists, best, pdfOpen, image_files, prs, pg,
                    written, exitCode, ratioIn, ratioOut >>

\* Presentation(...), the detect_ratio block, slide_layouts[6], the sorted listing
ImPresentation ==
    /\ pc = "im_prs"
    /\ \/ /\ LeaveTempDir                            \* python-pptx raises
          /\ Finish(Failure(MsgException))
          /\ UNCHANGED << prs, image_files, pg >>
       \/ \E size \in PageSizes, openable \in BOOLEAN :
            /\ LET aspect == detect_aspect_ratio(TheDoc(openable, req.pages, size))
               IN  prs' = [size |-> SlideSize(req.detect_ratio, req.template, aspect),
                           aspect |-> IF req.detect_ratio THEN aspect.category ELSE "none",
                           slides |-> << >>, pictures |-> << >>]
            /\ image_files' = sorted({ f.name : f \in tmpFiles })
            /\ pg' = 0
            /\ pc' = "im_slides"
            /\ UNCHANGED << result, tmpDir, tmpFiles >>
    /\ UNCHANGED << guiVars, nameVars, deps, convertTool, outputExists, req, best, pdfOpen, written,
                    effects, exitCode, ratioIn, ratioOut >>

\* one iteration of `for img_file in image_files`
ImSlide ==
    /\ pc = "im_slides"
    /\ pg < Len(image_files)
    /\ \/ /\ prs' = [prs EXCEPT !.slides = Append(@, PageOf(tmpFiles, image_files[pg + 1])),
                                 !.pictures = Append(@, Picture(0, 0, prs.size))]
          /\ pg' = pg + 1
          /\ UNCHANGED << pc, result, tmpDir, tmpFiles >>
       \/ /\ LeaveTempDir                            \* python-pptx raises
          /\ Finish(Failure(MsgException))
          /\ UNCHANGED << prs, pg >>
    /\ UNCHANGED << guiVars, nameVars, deps, convertTool, outputExists, req, best, pdfOpen, image_files,
                    written, effects, exitCode, ratioIn, ratioOut >>

\* prs.save(output_path) after the last image
ImSave ==
    /\ pc = "im_slides"
    /\ pg >= Len(image_files)
    /\ LeaveTempDir
    /\ \/ /\ outputExists' = TRUE
          /\ written' = PptxWritten(prs.slides)
          /\ pc' = "im_check"
          /\ UNCHANGED result
       \/ /\ Finish(Failure(MsgException))          \* save raises
          /\ UNCHANGED << outputExists, written >>
    /\ UNCHANGED << guiVars, nameVars, deps, convertTool, req, best, pdfOpen, image_files, prs, pg,
                    effects, exitCode, ratioIn, ratioOut >>

\* the test of the output file
ImFinish ==
    /\ pc = "im_check"
    /\ Finish(OutputCheck(outputExists))
    /\ UNCHANGED << guiVars, nameVars, deps, convertTool, outputExists, req, best, pdfOpen, tmpDir, tmpFiles,
                    image_files, prs, pg, written, effects, exitCode, ratioIn, ratioOut >>

\* The caller has the result; the next call starts from a clean slate.  The
\* output file stays where it is.
Return ==
    /\ pc = "done"
    /\ pc' = "idle"
    /\ req' = NoReq
    /\ result' = NoResult
    /\ pdfOpen' = FALSE
    /\ tmpDir' = "none"
    /\ tmpFiles' = {}
    /\ image_files' = << >>
    /\ prs' = NoPrs
    /\ pg' = 0
    /\ written' = NothingWritten
    /\ effects' = NoEffects
    /\ exitCode' = << >>
    /\ UNCHANGED << guiVars, nameVars, deps, convertTool, outputExists, best, ratioIn, ratioOut >>

(***************************************************************************)
(* The command-line variant, src/convert_pdf2ppt.py.                       *)
(***************************************************************************)
\* check_imagemagick of the command-line variant: "ImageMagick" in result.stdout
check_imagemagick(tool) ==
    CASE tool = "ok" -> [raised |-> FALSE, value |-> TRUE]
      [] tool = "absent" -> [raised |-> FALSE, value |-> FALSE]   \* FileNotFoundError, caught
      [] OTHER -> [raised |-> TRUE, value |-> FALSE]              \* another OSError, not caught

\* main's mapping of convert_pdf_to_ppt's return value to the exit code
MainExit(ok) == IF ok THEN 0 ELSE 1

CliReturn(ok) ==
    /\ Finish(IF ok THEN Success("") ELSE Failure(""))
    /\ exitCode' = << MainExit(ok) >>

\* an exception that nothing catches ends the process with a traceback
CliCrash(what) ==
    /\ Finish(Raised(what))
    /\ UNCHANGED exitCode

PlaceholderOutcomeAlwaysTrue(wrote) == TRUE

\* the value the placeholder step returns: True after the write, False from its
\* except clause
PlaceholderOutcome(wrote) == wrote

\* the outcomes of the office-suite step after which method 2 is tried
OfficeFallbacks == { "unavailable", "timeout", "nonzero", "no file" }

\* main: the existence test of the input
CliMain ==
    /\ pc = "idle"
    /\ \E exists \in BOOLEAN :
         /\ req' = [NoReq EXCEPT !.program = "cli", !.inputExists = exists,
                                 !.outputBefore = outputExists]
         /\ IF PathMissing(exists)
            THEN /\ pc' = "done"
                 /\ exitCode' = << 1 >>
            ELSE /\ pc' = "cli_check"
                 /\ UNCHANGED exitCode
    /\ best' = "none"
    /\ UNCHANGED << guiVars, nameVars, deps, convertTool, outputExists, result, pdfOpen, tmpDir, tmpFiles,
                    image_files, prs, pg, written, effects, ratioIn, ratioOut >>

\* convert_pdf_to_ppt of the command-line variant: the probe of `convert`
CliCheck ==
    /\ pc = "cli_check"
    /\ effects' = [effects EXCEPT !.probes = @ + 1]
    /\ IF check_imagemagick(convertTool).raised THEN CliCrash("OSError")
       ELSE IF ~check_imagemagick(convertTool).value THEN CliReturn(FALSE)
       ELSE /\ pc' = "cli_raster"
            /\ UNCHANGED << result, exitCode >>
    /\ UNCHANGED << guiVars, nameVars, deps, convertTool, outputExists, req, best, pdfOpen, tmpDir, tmpFiles,
                    image_files, prs, pg, written, ratioIn, ratioOut >>

\* tempfile.mkdtemp, convert_pdf_to_images, the sorted listing
CliRasterize ==
    /\ pc = "cli_raster"
    /\ tmpDir' = "live"
    /\ \/ /\ CliReturn(FALSE)                        \* subprocess.run raises, caught
          /\ effects' = [effects EXCEPT !.toolRuns = @ + 1]
          /\ UNCHANGED << req, tmpFiles, image_files >>
       \/ \E returncode \in 0..1, pages \in 0..MaxPages :
            LET files == Rasterize(<< [all |-> TRUE, first |-> 0, last |-> 0] >>,
                                   pages, CliNameWidth)
            IN  /\ effects' = [effects EXCEPT !.toolRuns = @ + 1,
                                              !.returncode = Some(returncode)]
                /\ req' = [req EXCEPT !.pages = pages]
                /\ IF returncode # 0
                   THEN /\ CliReturn(FALSE)
                        /\ UNCHANGED << tmpFiles, image_files >>
                   ELSE /\ tmpFiles' = files
                        /\ IF files = {}
                           THEN /\ CliReturn(FALSE)
                                /\ UNCHANGED image_files
                           ELSE /\ image_files' = sorted({ f.name : f \in files })
                                /\ pc' = "cli_office"
                                /\ UNCHANGED << result, exitCode >>
    /\ UNCHANGED << guiVars, nameVars, deps, convertTool, outputExists, best, pdfOpen, prs, pg, written,
                    ratioIn, ratioOut >>

\* os.makedirs, create_simple_html, soffice with timeout=60, the move of slides.pptx
CliOffice ==
    /\ pc = "cli_office"
    /\ \/ /\ CliCrash("OSError")                     \* os.makedirs raises
          /\ UNCHANGED << outputExists, written, effects, prs >>
       \/ /\ effects' = [effects EXCEPT !.toolRuns = @ + 1, !.office = "converted"]
          /\ prs' = [NoPrs EXCEPT
                        !.size = "soffice",
                        !.slides = [i \in 1..Len(image_files) |->
                                       PageOf(tmpFiles, image_files[i])]]
          /\ outputExists' = TRUE
          /\ written' = PptxWritten(prs'.slides)
          /\ CliReturn(TRUE)
       \/ \E outcome \in OfficeFallbacks :
            /\ effects' = [effects EXCEPT !.toolRuns = @ + 1, !.office = outcome]
            /\ pc' = "cli_placeholder"
            /\ UNCHANGED << outputExists, written, result, exitCode, prs >>
    /\ UNCHANGED << guiVars, nameVars, deps, convertTool, req, best, pdfOpen, tmpDir, tmpFiles, image_files,
                    pg, ratioIn, ratioOut >>

\* method 2: the plain-text placeholder at output_path
CliPlaceholder ==
    /\ pc = "cli_placeholder"
    /\ \E wrote \in BOOLEAN :
         /\ outputExists' = (outputExists \/ wrote)
         /\ written' = IF wrote THEN PlaceholderWritten ELSE NothingWritten
         /\ CliReturn(PlaceholderOutcome(wrote))
    /\ UNCHANGED << guiVars, nameVars, deps, convertTool, req, best, pdfOpen, tmpDir, tmpFiles, image_files,
                    prs, pg, effects, ratioIn, ratioOut >>

(***************************************************************************)
(* convert_pdf_to_pptx of the GUI, src/simple_gui.py.                      *)
(***************************************************************************)
\* shutil.rmtree(temp_dir, ignore_errors=True) of the finally clause
rmtree ==
    /\ tmpDir' = "removed"
    /\ tmpFiles' = {}

\* The files pdftoppm -png leaves for a document of N pages: page-K.png for
\* K = 1..N, K padded with zeros to the number of digits of N.
Pdftoppm(N) ==
    { [name |-> FileName(k, Len(Digits(N))), page |-> k - 1] : k \in 1..N }

GuiReturn(ok) == Finish(IF ok THEN Success("") ELSE Failure(""))

\* a caller enters convert_pdf_to_pptx
GuiCall ==
    /\ pc = "idle"
    /\ req' = [NoReq EXCEPT !.program = "gui", !.inputExists = TRUE,
                            !.outputBefore = outputExists]
    /\ pc' = "gui_raster"
    /\ best' = "none"
    /\ UNCHANGED << guiVars, nameVars, deps, convertTool, outputExists, result, pdfOpen, tmpDir, tmpFiles,
                    image_files, prs, pg, written, effects, exitCode, ratioIn, ratioOut >>

\* tempfile.mkdtemp, pdftoppm, the returncode test, the sorted listing
GuiRasterize ==
    /\ pc = "gui_raster"
    /\ \/ /\ GuiReturn(FALSE)                        \* mkdtemp raises: no directory
          /\ UNCHANGED << req, tmpDir, tmpFiles, image_files, effects >>
       \/ /\ rmtree                                  \* subprocess.run raises
          /\ effects' = [effects EXCEPT !.toolRuns = @ + 1]
          /\ GuiReturn(FALSE)
          /\ UNCHANGED << req, image_files >>
       \/ \E returncode \in 0..1, pages \in 0..MaxPages :
            /\ effects' = [effects EXCEPT !.toolRuns = @ + 1,
                                          !.returncode = Some(returncode)]
            /\ req' = [req EXCEPT !.pages = pages]
            /\ IF returncode # 0 \/ Pdftoppm(pages) = {}
               THEN /\ rmtree
                    /\ GuiReturn(FALSE)
                    /\ UNCHANGED image_files
               ELSE /\ tmpDir' = "live"
                    /\ tmpFiles' = Pdftoppm(pages)
                    /\ image_files' = sorted({ f.name : f \in Pdftoppm(pages) })
                    /\ pc' = "gui_build"
                    /\ UNCHANGED result
    /\ UNCHANGED << guiVars, nameVars, deps, convertTool, outputExists, best, pdfOpen, prs, pg, written,
                    exitCode, ratioIn, ratioOut >>

\* Presentation(), the 10 x 7.5 inch slides, one slide per image, prs.save, and
\* the finally clause
GuiBuild ==
    /\ pc = "gui_build"
    /\ rmtree
    /\ \/ /\ GuiReturn(FALSE)                        \* python-pptx raises
          /\ UNCHANGED << prs, outputExists, written >>
       \/ /\ prs' = [NoPrs EXCEPT
                        !.size = "10 x 7.5 in",
                        !.slides = [i \in 1..Len(image_files) |->
                                       PageOf(tmpFiles, image_files[i])],
                        !.pictures = [i \in 1..Len(image_files) |->
                                         Picture(0, 0, "10 x 7.5 in")]]
          /\ outputExists' = TRUE
          /\ written' = PptxWritten(prs'.slides)
          /\ GuiReturn(TRUE)
    /\ UNCHANGED << guiVars, nameVars, deps, convertTool, req, best, pdfOpen, image_files, pg, effects,
                    exitCode, ratioIn, ratioOut >>

Tools == { "ok", "absent", "denied" }

Init ==
    /\ deps \in [pdf2pptx : BOOLEAN, pymupdf : BOOLEAN, pptx : BOOLEAN]
    /\ convertTool \in Tools
    /\ outputExists = FALSE
    /\ pc = "idle"
    /\ req = NoReq
    /\ result = NoResult
    /\ best = "none"
    /\ pdfOpen = FALSE
    /\ tmpDir = "none"
    /\ tmpFiles = {}
    /\ image_files = << >>
    /\ prs = NoPrs
    /\ pg = 0
    /\ written = NothingWritten
    /\ effects = NoEffects
    /\ exitCode = << >>
    /\ ratioIn = NoRatioIn
    /\ ratioOut = NoRatioOut
    /\ GuiIdle
    /\ NamesIdle

Next ==
    \/ GetBest
    \/ convert_pdf_to_ppt
    \/ main_block
    \/ _convert_with_pdf2pptx
    \/ PyEntry
    \/ PyOpen
    \/ PyPresentation
    \/ PyPage
    \/ PySave
    \/ PyFinish
    \/ ImEntry
    \/ ImRasterize
    \/ ImPresentation
    \/ ImSlide
    \/ ImSave
    \/ ImFinish
    \/ CliMain
    \/ CliCheck
    \/ CliRasterize
    \/ CliOffice
    \/ CliPlaceholder
    \/ GuiCall
    \/ GuiRasterize
    \/ GuiBuild
    \/ Return

Spec == Init /\ [][Next]_vars

(***************************************************************************)
(* detect_aspect_ratio on its own, over every first-page size of the bound. *)
(***************************************************************************)
RatioDocs ==
    [available : BOOLEAN, openable : BOOLEAN, pages : 0..1,
     width : 0..MaxDim, height : 0..MaxDim]

DetectRatio ==
    /\ ratioOut.status = "none"
    /\ ratioOut' = detect_aspect_ratio(ratioIn)
    /\ UNCHANGED << guiVars, nameVars, deps, convertTool, outputExists, pc, req, result, best, pdfOpen,
                    tmpDir, tmpFiles, image_files, prs, pg, written, effects, exitCode,
                    ratioIn >>

RatioInit ==
    /\ ratioIn \in RatioDocs
    /\ ratioOut = NoRatioOut
    /\ deps = [pdf2pptx |-> FALSE, pymupdf |-> ratioIn.available, pptx |-> FALSE]
    /\ convertTool = "absent"
    /\ outputExists = FALSE
    /\ pc = "idle"
    /\ req = NoReq
    /\ result = NoResult
    /\ best = "none"
    /\ pdfOpen = FALSE
    /\ tmpDir = "none"
    /\ tmpFiles = {}
    /\ image_files = << >>
    /\ prs = NoPrs
    /\ pg = 0
    /\ written = NothingWritten
    /\ effects = NoEffects
    /\ exitCode = << >>
    /\ GuiIdle
    /\ NamesIdle

RatioNext == DetectRatio

SpecRatio == RatioInit /\ [][RatioNext]_vars

(***************************************************************************)
(* The GUI process, src/simple_gui.py: the main thread runs the button     *)
(* handlers one at a time, each batch thread runs convert_files.  A step   *)
(* of a batch thread is the code between two points at which the main      *)
(* thread can run.  start_conversion is the start button's command; it is  *)
(* taken to be callable whatever the button's state, so that the guard in  *)
(* its body is what decides.                                               *)
(***************************************************************************)
Elems(list) == { list[k] : k \in 1..Len(list) }

\* the tuple a file dialog returns for the chosen paths
RECURSIVE Chosen(_)
Chosen(S) ==
    IF S = {} THEN << >>
    ELSE LET least == CHOOSE f \in S : \A g \in S : f <= g
         IN  << least >> \o Chosen(S \ {least})

\* for file in files: if file not in self.input_files: self.input_files.append(file)
RECURSIVE AppendNew(_, _)
AppendNew(list, files) ==
    IF files = << >> THEN list
    ELSE AppendNew(IF Head(files) \in Elems(list) THEN list ELSE Append(list, Head(files)),
                   Tail(files))

\* for i in sorted(selected_indices, reverse=True): del self.input_files[i]
DeleteAt(list, selected) ==
    LET keep == { k \in 1..Len(list) : k \notin selected }
    IN  [j \in 1..Cardinality(keep) |->
            list[CHOOSE k \in keep : Cardinality({ m \in keep : m < k }) = j - 1]]

\* the list object a batch thread's loop iterates
TheList(w) == IF workers[w].attached THEN input_files ELSE workers[w].detached

LogRecord(thread) == UiCall("log_text", thread, "after")

\* update_status
StatusBar(thread) == UiCall("status_bar.config", thread, "direct")

\* The list-editing handlers below keep the list; their own calls on widgets are
\* main-thread calls and are left out.

\* The code compares paths for equality only, so the paths are numbered in the
\* order the user first adds them: a selection holds paths added before and the
\* next unused numbers.
Selection(S) ==
    LET fresh == S \ (1..known)
    IN  fresh = (known + 1)..(known + Cardinality(fresh))

add_files ==
    /\ edits < MaxEdits
    /\ edits' = edits + 1
    /\ \E S \in SUBSET Files :
         /\ Selection(S)
         /\ known' = known + Cardinality(S \ (1..known))
         /\ input_files' = AppendNew(input_files, Chosen(S))
    /\ UNCHANGED << is_converting, convert_btn, progress_var, workers, uiLast >>
    /\ UNCHANGED << nameVars, deps, convertTool, outputExists, pc, req, result, best,
                    pdfOpen, tmpDir, tmpFiles, image_files, prs, pg, written, effects,
                    exitCode, ratioIn, ratioOut >>

add_folder ==
    /\ edits < MaxEdits
    /\ edits' = edits + 1
    /\ \E S \in SUBSET Files :
         LET pdf_files == Chosen(S \ Elems(input_files))
         IN  /\ Selection(S)
             /\ known' = known + Cardinality(S \ (1..known))
             /\ input_files' = input_files \o pdf_files
    /\ UNCHANGED << is_converting, convert_btn, progress_var, workers, uiLast >>
    /\ UNCHANGED << nameVars, deps, convertTool, outputExists, pc, req, result, best,
                    pdfOpen, tmpDir, tmpFiles, image_files, prs, pg, written, effects,
                    exitCode, ratioIn, ratioOut >>

remove_selected ==
    /\ edits < MaxEdits
    /\ edits' = edits + 1
    /\ \E selected \in SUBSET (1..Len(input_files)) :
         input_files' = DeleteAt(input_files, selected)
    /\ UNCHANGED << is_converting, convert_btn, progress_var, workers, uiLast, known >>
    /\ UNCHANGED << nameVars, deps, convertTool, outputExists, pc, req, result, best,
                    pdfOpen, tmpDir, tmpFiles, image_files, prs, pg, written, effects,
                    exitCode, ratioIn, ratioOut >>

\* self.input_files = []: the attribute names a new list, a running loop keeps the old
clear_list ==
    /\ edits < MaxEdits
    /\ edits' = edits + 1
    /\ input_files' = << >>
    /\ workers' = [w \in Workers |->
                     IF workers[w].attached
                     THEN [workers[w] EXCEPT !.attached = FALSE, !.detached = input_files]
                     ELSE workers[w]]
    /\ UNCHANGED << is_converting, convert_btn, progress_var, uiLast, known >>
    /\ UNCHANGED << nameVars, deps, convertTool, outputExists, pc, req, result, best,
                    pdfOpen, tmpDir, tmpFiles, image_files, prs, pg, written, effects,
                    exitCode, ratioIn, ratioOut >>

\* the two early returns of start_conversion
MayStartWhileConverting(files, converting) == files # << >>

MayStart(files, converting) == files # << >> /\ ~converting

start_conversion ==
    /\ IF MayStart(input_files, is_converting)
       THEN \E w \in Workers :
              /\ workers[w].pc = "unborn"
              /\ \A v \in Workers : v < w => workers[v].pc # "unborn"
              /\ is_converting' = TRUE
              /\ convert_btn' = "disabled"
              /\ progress_var' = << 0, 1 >>
              /\ workers' = [workers EXCEPT ![w] = [NoWorker EXCEPT !.pc = "start",
                                                     !.started = input_files]]
              /\ uiLast' = { UiCall("convert_btn.config", "main", "direct"),
                             StatusBar("main"),
                             UiCall("progress_var.set", "main", "direct") }
       ELSE /\ uiLast' = { UiCall(IF input_files = << >> THEN "messagebox.showwarning"
                                  ELSE "messagebox.showinfo", "main", "direct") }
            /\ UNCHANGED << is_converting, convert_btn, progress_var, workers >>
    /\ UNCHANGED << input_files, edits, known >>
    /\ UNCHANGED << nameVars, deps, convertTool, outputExists, pc, req, result, best,
                    pdfOpen, tmpDir, tmpFiles, image_files, prs, pg, written, effects,
                    exitCode, ratioIn, ratioOut >>

\* convert_files up to the loop: total_files, the counters, two log records
BatchStart(w) ==
    /\ workers[w].pc = "start"
    /\ workers' = [workers EXCEPT ![w].pc = "enumerate",
                                  ![w].total_files = Len(input_files)]
    /\ uiLast' = { LogRecord("worker") }
    /\ UNCHANGED << edits, known, input_files, is_converting, convert_btn, progress_var >>
    /\ UNCHANGED << nameVars, deps, convertTool, outputExists, pc, req, result, best,
                    pdfOpen, tmpDir, tmpFiles, image_files, prs, pg, written, effects,
                    exitCode, ratioIn, ratioOut >>

\* enumerate(self.input_files): an iterator over the list object of this moment
BatchEnumerate(w) ==
    /\ workers[w].pc = "enumerate"
    /\ workers' = [workers EXCEPT ![w].pc = "next", ![w].attached = TRUE]
    /\ uiLast' = {}
    /\ UNCHANGED << edits, known, input_files, is_converting, convert_btn, progress_var >>
    /\ UNCHANGED << nameVars, deps, convertTool, outputExists, pc, req, result, best,
                    pdfOpen, tmpDir, tmpFiles, image_files, prs, pg, written, effects,
                    exitCode, ratioIn, ratioOut >>

\* one advance of the iterator, then the progress update and the log record
BatchNext(w) ==
    /\ workers[w].pc = "next"
    /\ IF workers[w].yielded >= Len(TheList(w))
       THEN /\ workers' = [workers EXCEPT ![w].pc = "complete"]       \* StopIteration
            /\ uiLast' = {}
            /\ UNCHANGED progress_var
       ELSE IF workers[w].total_files = 0
       THEN /\ workers' = [workers EXCEPT ![w].pc = "except"]         \* ZeroDivisionError
            /\ uiLast' = {}
            /\ UNCHANGED progress_var
       ELSE /\ progress_var' = << workers[w].yielded * 100, workers[w].total_files >>
            /\ workers' = [workers EXCEPT
                             ![w].pc = "converting",
                             ![w].input_file = TheList(w)[workers[w].yielded + 1],
                             ![w].yielded = @ + 1]
            /\ uiLast' = { UiCall("progress_var.set", "worker", "direct"),
                           UiCall("root.update_idletasks", "worker", "direct"),
                           LogRecord("worker") }
    /\ UNCHANGED << edits, known, input_files, is_converting, convert_btn >>
    /\ UNCHANGED << nameVars, deps, convertTool, outputExists, pc, req, result, best,
                    pdfOpen, tmpDir, tmpFiles, image_files, prs, pg, written, effects,
                    exitCode, ratioIn, ratioOut >>

\* the file is the one the batch owes its next call to
NextOfBatch(w, file) ==
    LET calls == workers[w].successful + workers[w].failed
    IN  calls < Len(workers[w].started) /\ workers[w].started[calls + 1] = file

\* convert_pdf_to_pptx(input_file, output_file), the call of GuiCall to GuiBuild, and
\* the counting that follows it.  The call catches every exception and touches no
\* state of the window; the loop reads os.path.exists(output_file) and nothing else
\* of its outcome, so the outcome is that one bit.
BatchConvert(w) ==
    /\ workers[w].pc = "converting"
    /\ \E exists \in BOOLEAN :
         workers' = [workers EXCEPT
                       ![w].pc = "next",
                       ![w].inOrder = @ /\ NextOfBatch(w, workers[w].input_file),
                       ![w].successful = IF exists THEN @ + 1 ELSE @,
                       ![w].failed = IF exists THEN @ ELSE @ + 1]
    /\ uiLast' = { LogRecord("worker") }
    /\ UNCHANGED << edits, known, input_files, is_converting, convert_btn, progress_var >>
    /\ UNCHANGED << nameVars, deps, convertTool, outputExists, pc, req, result, best,
                    pdfOpen, tmpDir, tmpFiles, image_files, prs, pg, written, effects,
                    exitCode, ratioIn, ratioOut >>

\* after the loop: two log records, the progress set to 100, the completion dialog;
\* the locals of the loop are not read again
BatchComplete(w) ==
    /\ workers[w].pc = "complete"
    /\ progress_var' = << 100, 1 >>
    /\ workers' = [workers EXCEPT ![w] = [NoWorker EXCEPT !.pc = "finally"]]
    /\ uiLast' = { LogRecord("worker"),
                   UiCall("progress_var.set", "worker", "direct"),
                   UiCall("messagebox.showinfo", "worker", "direct") }
    /\ UNCHANGED << edits, known, input_files, is_converting, convert_btn >>
    /\ UNCHANGED << nameVars, deps, convertTool, outputExists, pc, req, result, best,
                    pdfOpen, tmpDir, tmpFiles, image_files, prs, pg, written, effects,
                    exitCode, ratioIn, ratioOut >>

\* except Exception: a log record and the error dialog
BatchExcept(w) ==
    /\ workers[w].pc = "except"
    /\ workers' = [workers EXCEPT ![w] = [NoWorker EXCEPT !.pc = "finally"]]
    /\ uiLast' = { LogRecord("worker"),
                   UiCall("messagebox.showerror", "worker", "direct") }
    /\ UNCHANGED << edits, known, input_files, is_converting, convert_btn, progress_var >>
    /\ UNCHANGED << nameVars, deps, convertTool, outputExists, pc, req, result, best,
                    pdfOpen, tmpDir, tmpFiles, image_files, prs, pg, written, effects,
                    exitCode, ratioIn, ratioOut >>

\* finally: self.is_converting = False
BatchReset(w) ==
    /\ workers[w].pc = "finally"
    /\ is_converting' = FALSE
    /\ workers' = [workers EXCEPT ![w].pc = "finally_ui"]
    /\ uiLast' = {}
    /\ UNCHANGED << edits, known, input_files, convert_btn, progress_var >>
    /\ UNCHANGED << nameVars, deps, convertTool, outputExists, pc, req, result, best,
                    pdfOpen, tmpDir, tmpFiles, image_files, prs, pg, written, effects,
                    exitCode, ratioIn, ratioOut >>

\* finally: the button and the status bar; the thread ends
BatchEnd(w) ==
    /\ workers[w].pc = "finally_ui"
    /\ convert_btn' = "normal"
    /\ workers' = [workers EXCEPT ![w] = DeadWorker]
    /\ uiLast' = { UiCall("convert_btn.config", "worker", "direct"),
                   StatusBar("worker") }
    /\ UNCHANGED << edits, known, input_files, is_converting, progress_var >>
    /\ UNCHANGED << nameVars, deps, convertTool, outputExists, pc, req, result, best,
                    pdfOpen, tmpDir, tmpFiles, image_files, prs, pg, written, effects,
                    exitCode, ratioIn, ratioOut >>

convert_files(w) ==
    \/ BatchStart(w)
    \/ BatchEnumerate(w)
    \/ BatchNext(w)
    \/ BatchConvert(w)
    \/ BatchComplete(w)
    \/ BatchExcept(w)
    \/ BatchReset(w)
    \/ BatchEnd(w)

\* main() of simple_gui.py has checked python-pptx and built the window
GuiInit ==
    /\ deps = [pdf2pptx |-> FALSE, pymupdf |-> FALSE, pptx |-> TRUE]
    /\ convertTool = "absent"
    /\ outputExists = FALSE
    /\ pc = "idle"
    /\ req = NoReq
    /\ result = NoResult
    /\ best = "none"
    /\ pdfOpen = FALSE
    /\ tmpDir = "none"
    /\ tmpFiles = {}
    /\ image_files = << >>
    /\ prs = NoPrs
    /\ pg = 0
    /\ written = NothingWritten
    /\ effects = NoEffects
    /\ exitCode = << >>
    /\ ratioIn = NoRatioIn
    /\ ratioOut = NoRatioOut
    /\ GuiIdle
    /\ NamesIdle

GuiNext ==
    \/ add_files
    \/ add_folder
    \/ remove_selected
    \/ clear_list
    \/ start_conversion
    \/ \E w \in Workers : convert_files(w)

SpecGUI == GuiInit /\ [][GuiNext]_vars

(***************************************************************************)
(* The file names of two consecutive frames, listed and sorted as the      *)
(* strategies list and sort the temporary directory.  The lexicographic    *)
(* order is a total order, so the listing of a whole run is in frame order *)
(* exactly when every two consecutive names are.                           *)
(***************************************************************************)
NameInputs == [index : 0..(MaxIndex - 1), width : { LibraryNameWidth, CliNameWidth }]

\* sorted(os.listdir(temp_dir)) of the files of frames index and index + 1
ListPair ==
    /\ nameOut = << >>
    /\ nameOut' = sorted({ FileName(nameIn.index, nameIn.width),
                           FileName(nameIn.index + 1, nameIn.width) })
    /\ UNCHANGED << nameIn, guiVars, deps, convertTool, outputExists, pc, req, result, best,
                    pdfOpen, tmpDir, tmpFiles, image_files, prs, pg, written, effects,
                    exitCode, ratioIn, ratioOut >>

NamesInit ==
    /\ nameIn \in NameInputs
    /\ nameOut = << >>
    /\ deps = [pdf2pptx |-> FALSE, pymupdf |-> FALSE, pptx |-> TRUE]
    /\ convertTool = "ok"
    /\ outputExists = FALSE
    /\ pc = "idle"
    /\ req = NoReq
    /\ result = NoResult
    /\ best = "none"
    /\ pdfOpen = FALSE
    /\ tmpDir = "none"
    /\ tmpFiles = {}
    /\ image_files = << >>
    /\ prs = NoPrs
    /\ pg = 0
    /\ written = NothingWritten
    /\ effects = NoEffects
    /\ exitCode = << >>
    /\ ratioIn = NoRatioIn
    /\ ratioOut = NoRatioOut
    /\ GuiIdle

NamesNext == ListPair

SpecNames == NamesInit /\ [][NamesNext]_vars

(***************************************************************************)
(* Properties.                                                             *)
(***************************************************************************)
ModuleDone == req.program = "module" /\ pc = "done"
CliDone == req.program = "cli" /\ pc = "done"

\* C1: get_best_available_method returns the highest-priority tier the snapshot
\* satisfies: PDF2PPTX if pdf2pptx; otherwise PYMUPDF if pymupdf and pptx;
\* otherwise IMAGEMAGICK if imagemagick and pptx; and it fails with the
\* no-method error when every flag of the snapshot is false.
C1_BestMethod ==
    (best # "none" /\ convertTool # "denied") =>
        LET im == (convertTool = "ok")
        IN  /\ deps.pdf2pptx => best = PDF2PPTX
            /\ (~deps.pdf2pptx /\ deps.pymupdf /\ deps.pptx) => best = PYMUPDF
            /\ (~deps.pdf2pptx /\ ~(deps.pymupdf /\ deps.pptx) /\ im /\ deps.pptx)
                   => best = IMAGEMAGICK
            /\ (~deps.pdf2pptx /\ ~deps.pymupdf /\ ~deps.pptx /\ ~im) => best = NoMethod
            /\ best \in ConversionMethod \cup { NoMethod }

\* the third tier: no pdf2pptx, no PyMuPDF, ImageMagick and python-pptx
C1_Witness ==
    /\ best = IMAGEMAGICK
    /\ ~deps.pymupdf
    /\ ~deps.pdf2pptx
    /\ deps.pptx
    /\ convertTool = "ok"

\* C2: convert_pdf_to_ppt of the converter module never raises: every call ends
\* by returning a pair.
C2_NeverRaises ==
    req.program = "module" => result.status # "raised"

\* C3: with a missing input the module returns (False, input-file-does-not-exist)
\* and the CLI main returns 1, before any work: no temporary directory, no probe
\* of a dependency, no external tool run, no document opened, nothing written.
C3_MissingInput ==
    (req.program # "none" /\ ~req.inputExists) =>
        /\ pc = "done"
        /\ req.program = "module" => result = Failure(MsgInputMissing)
        /\ req.program = "cli" => (exitCode = << 1 >> /\ result = NoResult)
        /\ tmpDir = "none"
        /\ tmpFiles = {}
        /\ effects = NoEffects
        /\ ~pdfOpen
        /\ prs = NoPrs
        /\ written = NothingWritten
        /\ outputExists = req.outputBefore

C3_Witness ==
    /\ CliDone
    /\ ~req.inputExists
    /\ exitCode = << 1 >>

PyMuPDFSaved ==
    /\ req.program = "module"
    /\ req.method = PYMUPDF
    /\ written.kind = "pptx"

\* C4 as stated: the saved presentation holds one slide per page of
\* [s, min(s+c, N)) in page order, and one slide for every page of the document
\* when the count is unset.
C4_AllPagesWhenUnset ==
    PyMuPDFSaved =>
        written.slides = IF req.page_count = None
                         THEN Range(0, req.pages)
                         ELSE Range(req.start_page,
                                    Min(req.start_page + req.page_count[1], req.pages))

\* C4 as amended: the saved presentation holds one slide per page of
\* [s, min(s+c, N)) in page order, and one slide per page of [s, N) when the
\* count is unset; while the loop runs the slides are those of [s, pg).
C4_SlidesOfRange ==
    /\ PyMuPDFSaved =>
         written.slides = Range(req.start_page,
                                IF req.page_count = None THEN req.pages
                                ELSE Min(req.start_page + req.page_count[1], req.pages))
    /\ pc = "py_pages" => prs.slides = Range(req.start_page, pg)

\* a 10-page PDF, start 2, count 3: the slides of the pages 3, 4, 5
C4_Witness ==
    /\ PyMuPDFSaved
    /\ req.pages = 10
    /\ req.start_page = 2
    /\ req.page_count = Some(3)
    /\ written.slides = << 2, 3, 4 >>

\* C5: in the ImageMagick strategy a conversion with a page range (s, c) inside
\* the document saves exactly the c slides of the pages s .. s+c-1, in order.
C5_OnlyRequestedRange ==
    ( /\ req.program = "module"
      /\ req.method = IMAGEMAGICK
      /\ written.kind = "pptx"
      /\ req.page_count # None
      /\ req.page_count[1] >= 1
      /\ req.start_page + req.page_count[1] <= req.pages )
    => written.slides = Range(req.start_page, req.start_page + req.page_count[1])

ErrorMessages ==
    { MsgInputMissing, MsgNeedPdf2pptx, MsgNeedPyMuPDF, MsgNeedPptx, MsgNeedImageMagick,
      MsgNoOutput, MsgException, MsgRasterFailed }

\* C6: every result is (True, output path) or (False, error message), and
\* (True, path) is returned only if the output file exists when the handler is
\* through; the pdf2pptx handler fails when the library returned without leaving
\* a file.
C6_SuccessMeansFile ==
    (ModuleDone /\ result.status = "returned") =>
        /\ result.ok => (result.msg = OutputPath /\ outputExists)
        /\ ~result.ok => result.msg \in ErrorMessages
        /\ (req.method = PDF2PPTX /\ ~outputExists) => ~result.ok

\* the library returned without raising and without a file
C6_Witness ==
    /\ ModuleDone
    /\ req.method = PDF2PPTX
    /\ result = Failure(MsgNoOutput)
    /\ ~outputExists

RasterizerExitedNonZero ==
    /\ req.program = "module"
    /\ req.method = IMAGEMAGICK
    /\ effects.returncode # None
    /\ effects.returncode[1] # 0

\* C7 as stated: after a non-zero exit of the rasterizer the call returns
\* (False, message with the captured stderr), builds no slide, saves nothing, and
\* no output file exists at the output path.
C7_NoOutputFileAfterward ==
    RasterizerExitedNonZero =>
        /\ result = Failure(MsgRasterFailed)
        /\ prs = NoPrs
        /\ written = NothingWritten
        /\ ~outputExists

\* C7 as amended: after a non-zero exit of the rasterizer the call returns
\* (False, message with the captured stderr), builds no slide, saves nothing and
\* leaves the output path as it was: a file is there afterward exactly if one was
\* there before the call.
C7_OutputPathUntouched ==
    RasterizerExitedNonZero =>
        /\ pc = "done"
        /\ result = Failure(MsgRasterFailed)
        /\ prs = NoPrs
        /\ written = NothingWritten
        /\ outputExists = req.outputBefore

\* the rasterizer fails while the output of an earlier conversion is in place
C7_Witness ==
    /\ RasterizerExitedNonZero
    /\ result = Failure(MsgRasterFailed)
    /\ outputExists

FirstPageRead ==
    /\ ratioOut.status # "none"
    /\ ratioIn.available
    /\ ratioIn.openable
    /\ ratioIn.pages > 0
    /\ ratioIn.width > 0

\* C8: a ratio r = height / width is classified 4:3 exactly if
\* 0.74 <= r <= 0.76, 16:9 exactly if 0.55 <= r <= 0.57, and custom otherwise;
\* the four boundary values are inside their bands.
C8_ClosedBands ==
    FirstPageRead =>
        LET h == ratioIn.height
            w == ratioIn.width
            in43 == 74 * w <= 100 * h /\ 100 * h <= 76 * w
            in169 == 55 * w <= 100 * h /\ 100 * h <= 57 * w
        IN  /\ ratioOut.status = "returned"
            /\ ratioOut.category \in PDFAspectRatio
            /\ ratioOut.category = STANDARD_4_3 <=> in43
            /\ ratioOut.category = WIDESCREEN_16_9 <=> in169
            /\ ratioOut.category = CUSTOM <=> (~in43 /\ ~in169)
            /\ ratioOut.ratio = << h, w >>

\* the boundary 0.57 = 57 / 100
C8_Witness ==
    /\ FirstPageRead
    /\ ratioIn.height = 57
    /\ ratioIn.width = 100
    /\ ratioOut.category = WIDESCREEN_16_9

\* C9: detect_aspect_ratio never raises, and returns (4:3, 0.75) when PyMuPDF is
\* unavailable, when the document cannot be opened, when it has no page and when
\* the first page's width is zero.
C9_FallsBack ==
    /\ ratioOut.status # "raised"
    /\ (ratioOut.status # "none" /\ ~FirstPageRead) =>
          /\ ratioOut.status = "returned"
          /\ ratioOut.category = STANDARD_4_3
          /\ ratioOut.ratio[1] * 4 = ratioOut.ratio[2] * 3

\* a first page of width zero
C9_Witness ==
    /\ ratioOut.status = "returned"
    /\ ratioIn.available
    /\ ratioIn.openable
    /\ ratioIn.pages = 1
    /\ ratioIn.width = 0
    /\ ratioOut.category = STANDARD_4_3

OfficeUnavailableOrTimedOut ==
    /\ CliDone
    /\ effects.office \in { "unavailable", "timeout" }

\* C10 as stated: when the office-suite step is unavailable or times out, the
\* CLI writes the placeholder at the output path and reports success.
C10_AlwaysSuccess ==
    OfficeUnavailableOrTimedOut =>
        /\ written = PlaceholderWritten
        /\ result.ok
        /\ exitCode = << 0 >>

\* C10 as amended: when the office-suite step is unavailable or times out, the
\* CLI tries to write the placeholder at the output path; it reports success
\* (True, exit code 0) exactly if that write succeeded, and failure (False, exit
\* code 1) with nothing written if the write raised.
C10_PlaceholderFallback ==
    /\ effects.office \in { "unavailable", "timeout" } =>
          (req.program = "cli" /\ pc \in { "cli_placeholder", "done" })
    /\ OfficeUnavailableOrTimedOut =>
          /\ result.status = "returned"
          /\ written \in { PlaceholderWritten, NothingWritten }
          /\ written = PlaceholderWritten =>
                (result.ok /\ exitCode = << 0 >> /\ outputExists)
          /\ written = NothingWritten =>
                (~result.ok /\ exitCode = << 1 >> /\ outputExists = req.outputBefore)

\* the office suite timed out and the placeholder was written
C10_Witness ==
    /\ CliDone
    /\ effects.office = "timeout"
    /\ written = PlaceholderWritten
    /\ exitCode = << 0 >>

\* C11: every run of the CLI main ends by returning 0 or 1 to sys.exit: 0 exactly
\* when the conversion reported success, 1 when the input is missing or the
\* conversion failed; no failure ends the process in another way.
C11_ExitCodeOnly ==
    CliDone =>
        /\ result.status # "raised"
        /\ exitCode \in { << 0 >>, << 1 >> }
        /\ exitCode = << 0 >> <=> (result.status = "returned" /\ result.ok)

\* C12: when a call of the converter module or of the GUI's convert_pdf_to_pptx
\* returns, the temporary directory it created is removed, whatever the way
\* out; the temporary directory a CLI run created is never removed.
C12_TempDirScope ==
    /\ (pc = "done" /\ req.program \in { "module", "gui" }) =>
          (tmpDir \in { "none", "removed" } /\ tmpFiles = {})
    /\ req.program = "cli" => tmpDir \in { "none", "live" }
    /\ (CliDone /\ effects.toolRuns >= 1) => tmpDir = "live"

\* the rasterizer of the ImageMagick strategy failed: an early return inside the
\* TemporaryDirectory block
C12_Witness ==
    /\ ModuleDone
    /\ req.method = IMAGEMAGICK
    /\ result = Failure(MsgRasterFailed)
    /\ tmpDir = "removed"

(***************************************************************************)
(* The GUI batch.                                                          *)
(***************************************************************************)
\* the batch threads between their start and the reset of is_converting
InBatch ==
    { w \in Workers : workers[w].pc \in { "start", "enumerate", "next", "converting",
                                          "complete", "except", "finally" } }

\* C13: at most one batch thread is between its start and the reset of is_converting,
\* so at most one executes convert_pdf_to_pptx; while one is there is_converting is
\* set, and a start request in that time starts no thread.
C13_OneBatchAtATime ==
    /\ Cardinality(InBatch) <= 1
    /\ InBatch # {} => is_converting
    /\ Cardinality({ w \in Workers : workers[w].pc = "converting" }) <= 1

\* a start request was refused while a batch thread was inside convert_pdf_to_pptx
C13_Witness ==
    /\ \E w \in Workers : workers[w].pc = "converting"
    /\ uiLast = { UiCall("messagebox.showinfo", "main", "direct") }
    /\ \E w \in Workers : workers[w].pc = "unborn"

\* C14: every user-interface call a batch thread makes goes through after().
C14_WorkerOnlySchedules ==
    \A c \in uiLast : c.thread = "worker" => c.how = "after"

\* C15: when the loop of a batch has ended, convert_pdf_to_pptx was called for the
\* files of the list the batch started with, once each, in order, and
\* successful + failed is the length of that list.
C15_BatchCoversStartList ==
    \A w \in Workers :
        workers[w].pc = "complete" =>
            /\ workers[w].inOrder
            /\ workers[w].successful + workers[w].failed = Len(workers[w].started)

\* C20: the progress value is within [0, 100].
C20_ProgressInRange ==
    /\ RatioLe(<< 0, 1 >>, progress_var)
    /\ RatioLe(progress_var, << 100, 1 >>)

(***************************************************************************)
(* File naming.                                                            *)
(***************************************************************************)
\* C16: with the 4-digit pattern the sorted listing of the files of two consecutive
\* frames, for every frame index of a run of up to MaxIndex + 1 frames, has the
\* earlier frame first.
C16_SortedIsFrameOrder ==
    (nameOut # << >> /\ nameIn.width = LibraryNameWidth) =>
        nameOut = << FileName(nameIn.index, LibraryNameWidth),
                     FileName(nameIn.index + 1, LibraryNameWidth) >>

\* the frames 999 and 1000, whose unpadded names sort the other way round
C16_Witness ==
    /\ nameIn = [index |-> 999, width |-> LibraryNameWidth]
    /\ nameOut = << FileName(999, LibraryNameWidth), FileName(1000, LibraryNameWidth) >>

\* C21: with the 3-digit pattern of the command-line variant the sorted listing of
\* the files of two consecutive frames has the earlier frame first, for every frame
\* index.
C21_CliSortedIsFrameOrder ==
    (nameOut # << >> /\ nameIn.width = CliNameWidth) =>
        nameOut = << FileName(nameIn.index, CliNameWidth),
                     FileName(nameIn.index + 1, CliNameWidth) >>

(***************************************************************************)
(* The document handle of the PyMuPDF strategy.                            *)
(***************************************************************************)
\* C17: when a call of the PyMuPDF strategy has returned, the handle it opened is
\* closed.
C17_HandleClosedOnReturn ==
    (ModuleDone /\ req.method = PYMUPDF /\ result.status = "returned") => ~pdfOpen

(***************************************************************************)
(* Slide dimensions.                                                       *)
(***************************************************************************)
\* C18: in the PyMuPDF and ImageMagick strategies, with detection on the slides are
\* 10 x 5.625 in when the detector returned 16:9 and 10 x 7.5 in for everything else
\* it returns, template or not; with detection off the size is the template's or the
\* library default; every picture is at (0, 0) with the slide's size.
C18_SlideDimensions ==
    (req.program = "module" /\ req.method \in { PYMUPDF, IMAGEMAGICK } /\ prs # NoPrs) =>
        /\ req.detect_ratio =>
              /\ prs.aspect \in PDFAspectRatio
              /\ prs.size = IF prs.aspect = WIDESCREEN_16_9 THEN "10 x 5.625 in"
                            ELSE "10 x 7.5 in"
        /\ ~req.detect_ratio =>
              /\ prs.aspect = "none"
              /\ prs.size = IF req.template THEN "template" ELSE "python-pptx default"
        /\ Len(prs.pictures) = Len(prs.slides)
        /\ \A k \in 1..Len(prs.pictures) : prs.pictures[k] = Picture(0, 0, prs.size)

\* a template, detection on, a 16:9 first page, and two slides built
C18_Witness ==
    /\ req.program = "module"
    /\ req.method = PYMUPDF
    /\ req.template
    /\ req.detect_ratio
    /\ prs.aspect = WIDESCREEN_16_9
    /\ prs.size = "10 x 5.625 in"
    /\ Len(prs.pictures) = 2

(***************************************************************************)
(* The selected method and the dependency checks of the handlers.          *)
(***************************************************************************)
MissingDependency == { MsgNeedPdf2pptx, MsgNeedPyMuPDF, MsgNeedPptx, MsgNeedImageMagick }

\* what the handler of a method checks before it starts
HandlerDependencies(method) ==
    CASE method = PDF2PPTX -> deps.pdf2pptx
      [] method = PYMUPDF -> deps.pymupdf /\ deps.pptx
      [] method = IMAGEMAGICK -> convertTool = "ok" /\ deps.pptx

\* C19: a call with the method get_best_available_method returned, on an existing
\* input and under the same snapshot, returns and its message is no install hint;
\* and under any snapshot a handler that misses a dependency returns (False, install
\* hint) with no document opened, no temporary directory, no rasterizer run and
\* nothing built or written.
C19_SelectedMethodIsUsable ==
    /\ (ModuleDone /\ best \in ConversionMethod /\ req.method = best /\ req.inputExists) =>
          /\ result.status = "returned"
          /\ result.msg \notin MissingDependency
    /\ (ModuleDone /\ req.inputExists /\ convertTool # "denied"
          /\ ~HandlerDependencies(req.method)) =>
          /\ result.status = "returned"
          /\ ~result.ok
          /\ result.msg \in MissingDependency
    /\ (ModuleDone /\ result.msg \in MissingDependency) =>
          /\ ~pdfOpen
          /\ tmpDir = "none"
          /\ effects.toolRuns = 0
          /\ prs = NoPrs
          /\ written = NothingWritten

\* the third tier was selected and its call went through
C19_Witness ==
    /\ ModuleDone
    /\ best = IMAGEMAGICK
    /\ req.method = best
    /\ result.ok

====
